---- MODULE Spec2Model ----
(***************************************************************************)
(* The submission pipeline of FileScope AI's upload page                   *)
(* (frontend/src/app/upload/page.tsx) and of its analysis API service      *)
(* (services/analysisApi): file validation, submit, completion poller,     *)
(* IPFS publish, ledger registration, session snapshot and recovery.       *)
(*                                                                         *)
(* React state is the record ui; every action is one browser task (an      *)
(* event handler or the continuation of an awaited call) followed by the   *)
(* render it causes and the effects of that render.  An async function     *)
(* keeps the values of the render that created it: they are stored in the  *)
(* task record (file, isPublic, saved, isConnected).                       *)
(* analysisProgress is held in thirds of a percent, so that                *)
(* (attempts / maxAttempts) * 100 is exact.                                *)
(***************************************************************************)
EXTENDS Integers, Sequences, FiniteSets, TLC

\* ----------------------------------------------------------------- bounds
MaxRetries == 1
MaxReloads == 1
MaxPollFailures == 1
MaxFaults == 1
MaxResubmits == 1
MaxTasks == 1 + MaxResubmits + MaxRetries

\* ------------------------------------------------------ program constants
maxAttempts == 12
MaxFileSize == 100 * 1024 * 1024
FallbackQuality == 85
DefaultQuality == 85

Pct(n) == 3 * n
Min(a, b) == IF a < b THEN a ELSE b

supportedTypes ==
  { "text/csv", "application/json",
    "application/vnd.openxmlformats-officedocument.spreadsheetml.sheet" }

\* ------------------------------------------------------------------ files
\* content: "rows" (tabular bytes), "object"/"array"/"scalar" (what JSON.parse
\* gives; typeof null is 'object'), "invalid" (JSON.parse throws), "empty" (new File([''], ...)),
\* "none" (no file: null).
NoFile == [name |-> "", size |-> 0, type |-> "", content |-> "none"]

CsvAtLimit == [name |-> "limit.csv", size |-> MaxFileSize, type |-> "text/csv",
               content |-> "rows"]
JsonOk == [name |-> "data.json", size |-> 2048, type |-> "application/json",
           content |-> "array"]
JsonScalar == [name |-> "scalar.json", size |-> 16, type |-> "application/json",
               content |-> "scalar"]
JsonBroken == [name |-> "broken.json", size |-> MaxFileSize,
               type |-> "application/json", content |-> "invalid"]
XlsxTooBig == [name |-> "big.xlsx", size |-> MaxFileSize + 1,
               type |-> "application/vnd.openxmlformats-officedocument.spreadsheetml.sheet",
               content |-> "rows"]
TextFile == [name |-> "notes.txt", size |-> 2048, type |-> "text/plain",
             content |-> "rows"]

Files == {CsvAtLimit, JsonOk, JsonScalar, JsonBroken, XlsxTooBig, TextFile}

\* new File([''], name, {type}): the placeholder the restore code builds
MockFile(name, type) ==
  [name |-> name, size |-> 0, type |-> IF type = "" THEN "text/csv" ELSE type,
   content |-> "empty"]

\* ------------------------------------------------------------- job ids
\* currentAnalysisId: number | null.  0 is null, -1 is NaN; the service
\* numbers its jobs from 1.
NullId == 0
NaNId == 0 - 1
\* analysis_id as the service returns it: a number or a numeric string
\* (numeric), or a string parseInt cannot read
RawId(n, numeric) == [n |-> n, numeric |-> numeric]
NoRawId == RawId(0, TRUE)
IdForms == {TRUE, FALSE}
\* typeof id === 'string' ? parseInt(id) : id
ParseAnalysisId(raw) == IF raw.numeric THEN raw.n ELSE NaNId
\* String(currentAnalysisId) of a truthy number
StringOfId(id) == RawId(id, TRUE)
Truthy(id) == id > 0
\* JSON.stringify writes NaN as null
JsonId(id) == IF id = NaNId THEN NullId ELSE id

\* ------------------------------------------------------------- results
\* What GET analysis/{id}/ can answer with a 2xx status: a payload with
\* results (quality_score q), a payload without results (still processing),
\* or JSON null.
Payload(job, source, ready, q) ==
  [job |-> job, source |-> source, ready |-> ready, quality_score |-> q]
QualityScores == {87}

NoResults == [job |-> 0, source |-> "none", ready |-> FALSE, overall |-> 0]
NoCid == [file |-> "", job |-> 0, bytes |-> "none"]
NoSnapshot ==
  [currentStep |-> "none", analysisProgress |-> 0, currentAnalysisId |-> NullId,
   fileName |-> "", fileSize |-> 0, fileType |-> "", isPublic |-> FALSE]
\* an uploadState item JSON.parse throws on
Unparsable ==
  [currentStep |-> "unparsable", analysisProgress |-> 0, currentAnalysisId |-> NullId,
   fileName |-> "", fileSize |-> 0, fileType |-> "", isPublic |-> FALSE]
NoHandoff ==
  [status |-> "none", results |-> NoResults, fileName |-> "", analysisId |-> NullId,
   isPublic |-> FALSE, ipfsHash |-> NoCid, transactionHash |-> 0]

VARIABLES
  ui,        \* React state of FileScopeApp
  wagmi,     \* useWriteContract / useWaitForTransactionReceipt
  storage,   \* sessionStorage: uploadState (snapshot), analysisResults (handoff)
  tasks,     \* the async functions in flight
  page,      \* "upload": the upload page is mounted; "leaving": it is, and the
             \* navigation to the results is scheduled; "results", "home":
             \* the router has left it
  net,       \* the calls made to the three external systems, the stage
             \* whose call failed last since the file was chosen or submitted,
             \* the saveState() calls the async functions made themselves
             \* (how many, and the snapshot the last one wrote), and the
             \* arguments of the calls made for each job
  env        \* the budgets of the environment

vars == <<ui, wagmi, storage, tasks, page, net, env>>

\* ------------------------------------------------------------ initial state
\* toast: the last toast.error shown since the page was loaded
InitUi ==
  [currentStep |-> "upload", uploadedFile |-> NoFile, error |-> "",
   isAnalyzing |-> FALSE, analysisProgress |-> 0, currentAnalysisId |-> NullId,
   isPublic |-> FALSE, analysisResults |-> NoResults, ipfsHash |-> NoCid,
   toast |-> ""]

\* status/data: the useWriteContract mutation (data is blockchainData, 0 is
\* undefined); receipt: the useWaitForTransactionReceipt query
InitWagmi == [status |-> "idle", data |-> 0, receipt |-> "idle"]

InitStorage == [uploadState |-> NoSnapshot, analysisResults |-> NoHandoff]

IdleTask ==
  [pc |-> "free", origin |-> "none", analysisId |-> NoRawId, attempts |-> 0,
   fetches |-> 0, file |-> NoFile, isPublic |-> FALSE, saved |-> NoSnapshot,
   isConnected |-> FALSE, results |-> NoResults, raised |-> FALSE]

Slots == 1..MaxTasks
Jobs == 1..(1 + MaxResubmits)

\* submitted: the arguments of the uploadAndAnalyze call of each job;
\* pinned: the file sent with the last upload of the 'original file' of each
\* job; registered: the arguments of the last writeContract call of each job
InitNet ==
  [submits |-> 0, submitBy |-> {}, pins |-> [j \in Jobs |-> 0],
   writes |-> [j \in Jobs |-> 0], txs |-> 0, failed |-> "none",
   saves |-> 0, saved |-> NoSnapshot,
   submitted |-> [j \in Jobs |-> [file |-> NoFile, isPublic |-> FALSE]],
   pinned |-> [j \in Jobs |-> NoFile],
   registered |-> [j \in Jobs |-> [cid |-> NoCid, isPublic |-> FALSE]]]

\* ------------------------------------------------------------ persistence
\* the object saveState builds from the state of the render that created it
SavedOf(u) ==
  [currentStep |-> u.currentStep, analysisProgress |-> u.analysisProgress,
   currentAnalysisId |-> JsonId(u.currentAnalysisId),
   fileName |-> u.uploadedFile.name, fileSize |-> u.uploadedFile.size,
   fileType |-> u.uploadedFile.type, isPublic |-> u.isPublic]

saveState(st, saved) == [st EXCEPT !.uploadState = saved]

clearSavedState(st) == [st EXCEPT !.uploadState = NoSnapshot]

\* ------------------------------------------------------------ the effects
isTransactionConfirmed(w) == w.receipt = "success"
contractError(w) == w.status = "error"
receiptError(w) == w.receipt = "error"

\* useEffect (transaction confirmation): its condition and its dependencies
ConfirmReady(u, w) ==
  /\ isTransactionConfirmed(w)
  /\ u.analysisResults # NoResults
  /\ u.ipfsHash # NoCid
  /\ u.uploadedFile # NoFile

ConfirmDepsChanged(u0, w0, u1, w1, touched) ==
  \/ touched
  \/ w0.receipt # w1.receipt
  \/ w0.data # w1.data
  \/ u0.analysisResults # u1.analysisResults
  \/ u0.ipfsHash # u1.ipfsHash
  \/ u0.uploadedFile # u1.uploadedFile
  \/ u0.currentAnalysisId # u1.currentAnalysisId
  \/ u0.isPublic # u1.isPublic

ResultsData(u, w) ==
  [status |-> "confirmed", results |-> u.analysisResults,
   fileName |-> u.uploadedFile.name, analysisId |-> JsonId(u.currentAnalysisId),
   isPublic |-> u.isPublic, ipfsHash |-> u.ipfsHash, transactionHash |-> w.data]

\* useEffect (save state on progress change)
SaveReady(u) == u.currentStep = "processing" /\ u.isAnalyzing

SaveDepsChanged(u0, u1, touched) ==
  \/ touched
  \/ u0.currentStep # u1.currentStep
  \/ u0.analysisProgress # u1.analysisProgress
  \/ u0.currentAnalysisId # u1.currentAnalysisId
  \/ u0.isAnalyzing # u1.isAnalyzing
  \/ u0.uploadedFile # u1.uploadedFile
  \/ u0.isPublic # u1.isPublic

\* The render that follows a task and its effects, in the order the hooks are
\* declared; the state the effects set is rendered once more (a second pass
\* of the save effect).  u0, w0: before the task; u1, w1: after its setState
\* calls; st1: sessionStorage after the task's own writes; touched: the
\* object-valued state the task replaced by a new object ("file", "results"
\* or "none"), which changes a dependency even when the value is the same.
Render(u0, w0, u1, w1, st1, touched) ==
  LET confirm == ConfirmReady(u1, w1) /\ ConfirmDepsChanged(u0, w0, u1, w1, touched # "none")
      cErr == contractError(w1) /\ ~contractError(w0)
      rErr == receiptError(w1) /\ ~receiptError(w0)
      save1 == SaveReady(u1) /\ SaveDepsChanged(u0, u1, touched = "file")
      stA == IF confirm
             THEN clearSavedState([st1 EXCEPT !.analysisResults = ResultsData(u1, w1)])
             ELSE st1
      stB == IF cErr \/ rErr THEN clearSavedState(stA) ELSE stA
      stC == IF save1 THEN saveState(stB, SavedOf(u1)) ELSE stB
      uA == IF confirm THEN [u1 EXCEPT !.analysisProgress = Pct(100)] ELSE u1
      u2 == IF cErr \/ rErr
            THEN [uA EXCEPT !.isAnalyzing = FALSE, !.currentStep = "preview",
                            !.toast = IF rErr THEN "receipt_error" ELSE "contract_error"]
            ELSE uA
      save2 == SaveReady(u2) /\ SaveDepsChanged(u1, u2, FALSE)
      stD == IF save2 THEN saveState(stC, SavedOf(u2)) ELSE stC
  IN [ui |-> u2, storage |-> stD, nav |-> confirm]

\* every action ends with the render of what it set
Commit(u1, w1, st1, touched) ==
  LET r == Render(ui, wagmi, u1, w1, st1, touched)
  IN /\ ui' = r.ui
     /\ wagmi' = w1
     /\ storage' = r.storage
     /\ page' = IF r.nav THEN "leaving" ELSE page

Mounted == page \in {"upload", "leaving"}

FreeSlots == {t \in Slots : tasks[t].pc = "free"}
\* the slot a newly created async function takes
NewSlot == CHOOSE t \in FreeSlots : \A o \in FreeSlots : t <= o

\* --------------------------------------------------- choosing the file
\* what reader.onload of handleFileUpload decides for a JSON file: JSON.parse
\* must succeed and give an array or an object
JsonAccepted(file) == file.content \in {"array", "object"}

\* handleFileUpload with the size test file.size >= 100 * 1024 * 1024
handleFileUploadStrict(file) ==
  /\ Mounted
  /\ ui.currentStep = "upload"
  /\ IF file.type \notin supportedTypes
     THEN Commit([ui EXCEPT !.error = "type", !.toast = "type"], wagmi, storage, "none")
     ELSE IF file.size >= MaxFileSize
     THEN Commit([ui EXCEPT !.error = "size", !.toast = "size"], wagmi, storage, "none")
     ELSE IF file.type = "application/json" /\ ~JsonAccepted(file)
     THEN Commit([ui EXCEPT !.error = "json", !.toast = "json"], wagmi, storage, "none")
     ELSE Commit([ui EXCEPT !.error = "", !.uploadedFile = file,
                            !.currentStep = "preview"], wagmi, storage, "file")
  /\ UNCHANGED <<tasks, net, env>>

\* handleFileUpload, with the FileReader callback of a JSON file: the read of
\* the local file ends before any other event
handleFileUpload(file) ==
  /\ Mounted
  /\ ui.currentStep = "upload"
  /\ IF file.type \notin supportedTypes
     THEN Commit([ui EXCEPT !.error = "type", !.toast = "type"], wagmi, storage, "none")
     ELSE IF file.size > MaxFileSize
     THEN Commit([ui EXCEPT !.error = "size", !.toast = "size"], wagmi, storage, "none")
     ELSE IF file.type = "application/json" /\ ~JsonAccepted(file)
     THEN Commit([ui EXCEPT !.error = "json", !.toast = "json"], wagmi, storage, "none")
     ELSE Commit([ui EXCEPT !.error = "", !.uploadedFile = file,
                            !.currentStep = "preview"], wagmi, storage, "file")
  /\ UNCHANGED <<tasks, net, env>>

\* resetContract of useWriteContract
resetContract(w) == InitWagmi

\* navigateToStep('upload'): the X button of the preview step
navigateToStep ==
  /\ Mounted
  /\ ui.currentStep = "preview"
  /\ Commit([InitUi EXCEPT !.currentStep = "upload", !.toast = ui.toast],
            resetContract(wagmi), storage, "none")
  /\ net' = [net EXCEPT !.failed = "none"]
  /\ UNCHANGED <<tasks, env>>

\* the visibility switch of the preview step
setIsPublic ==
  /\ Mounted
  /\ ui.currentStep = "preview"
  /\ Commit([ui EXCEPT !.isPublic = ~ui.isPublic], wagmi, storage, "none")
  /\ UNCHANGED <<tasks, net, env>>

\* ------------------------------------------------- the analysis service API
\* createFallbackResults
createFallbackResults(job) == Payload(job, "fallback", TRUE, FallbackQuality)

\* convertToFrontendFormat: qualityScore.overall is
\* results?.metrics.quality_score || 85
convertToFrontendFormat(payload) ==
  [job |-> payload.job, source |-> payload.source, ready |-> payload.ready,
   overall |-> IF payload.ready /\ payload.quality_score # 0
               THEN payload.quality_score ELSE DefaultQuality]

\* the progress waitForAnalysisCompletion reports before attempt attempts + 1:
\* Math.min(90, (attempts / maxAttempts) * 100)
PollProgress(attempts) == Min(Pct(90), (attempts * Pct(100)) \div maxAttempts)

\* what the service can answer to GET analysis/{id}/: a payload with results
\* ("ready"), a payload without results whose status is 'processing' or
\* 'pending' ("processing") or 'failed' ("failed"), JSON null, or an answer
\* makeRequest throws on ("error")
Answers(job) ==
  {[kind |-> "ready", payload |-> Payload(job, "service", TRUE, q)] : q \in QualityScores}
  \cup {[kind |-> "processing", payload |-> Payload(job, "service", FALSE, 0)],
        [kind |-> "failed", payload |-> Payload(job, "service", FALSE, 0)],
        [kind |-> "null", payload |-> Payload(job, "service", FALSE, 0)],
        [kind |-> "error", payload |-> Payload(job, "service", FALSE, 0)]}

\* the answer is a JSON object (truthy)
HasBody(answer) == answer.kind \in {"ready", "processing", "failed"}

\* --------------------------------------------------------- async functions
\* startAnalysis up to its first await (uploadAndAnalyze), created by the
\* render whose state is u
SubmitTask(origin, u) ==
  [IdleTask EXCEPT !.pc = "submit", !.origin = origin, !.file = u.uploadedFile,
                   !.isPublic = u.isPublic, !.saved = SavedOf(u),
                   !.isConnected = TRUE]

\* continueAnalysisMonitoring(analysisId) up to the first await of the poller
\* (attempt 1 of waitForAnalysisCompletion), created by the render whose
\* state is u
MonitorTask(origin, analysisId, u, connected) ==
  [IdleTask EXCEPT !.pc = "fetch", !.origin = origin, !.analysisId = analysisId,
                   !.attempts = 0, !.fetches = 1, !.file = u.uploadedFile,
                   !.isPublic = u.isPublic, !.saved = SavedOf(u),
                   !.isConnected = connected]

\* the catch block of continueAnalysisMonitoring and of startAnalysis
CatchUi(u) ==
  [u EXCEPT !.currentStep = "preview", !.isAnalyzing = FALSE,
            !.toast = "monitoring_failed"]

JobOf(t) == tasks[t].analysisId.n

\* an adapter call that fails takes one of the failures the environment has left
Fault(failed) ==
  IF failed
  THEN env.faults > 0 /\ env' = [env EXCEPT !.faults = @ - 1]
  ELSE env' = env

\* startAnalysis: the Start AI Analysis button of the preview step
startAnalysis ==
  /\ Mounted
  /\ ui.currentStep = "preview"
  /\ ~ui.isAnalyzing
  /\ ui.uploadedFile # NoFile
  /\ env.submits > 0
  /\ FreeSlots # {}
  /\ tasks' = [tasks EXCEPT ![NewSlot] =
                 [SubmitTask("user", ui) EXCEPT !.analysisId = RawId(net.submits + 1, TRUE)]]
  /\ net' = [net EXCEPT !.submits = @ + 1, !.submitBy = @ \cup {"user"},
                        !.failed = "none", !.saves = @ + 1, !.saved = SavedOf(ui),
                        !.submitted[net.submits + 1] =
                           [file |-> ui.uploadedFile, isPublic |-> ui.isPublic]]
  /\ Commit([ui EXCEPT !.analysisResults = NoResults, !.ipfsHash = NoCid,
                       !.currentStep = "processing", !.isAnalyzing = TRUE,
                       !.analysisProgress = 0],
            resetContract(wagmi), saveState(storage, SavedOf(ui)), "none")
  /\ env' = [env EXCEPT !.submits = @ - 1]

\* uploadAndAnalyze answers with an analysis_id: setCurrentAnalysisId, then
\* continueAnalysisMonitoring(String(analysisId)) enters the poller
submitAccepted(t, numeric) ==
  /\ Mounted
  /\ tasks[t].pc = "submit"
  /\ LET raw == RawId(JobOf(t), numeric)
     IN /\ tasks' = [tasks EXCEPT ![t] =
                       [@ EXCEPT !.pc = "fetch", !.analysisId = raw,
                                 !.attempts = 0, !.fetches = 1]]
        /\ Commit([ui EXCEPT !.currentAnalysisId = ParseAnalysisId(raw),
                             !.analysisProgress = PollProgress(0)],
                  wagmi, storage, "none")
  /\ UNCHANGED <<net, env>>

\* a catch of startAnalysis without clearSavedState
submitFailedKeeps(t) ==
  /\ Mounted
  /\ tasks[t].pc = "submit"
  /\ tasks' = [tasks EXCEPT ![t] = IdleTask]
  /\ Commit([CatchUi(ui) EXCEPT !.toast = "analysis_failed"], wagmi, storage, "none")
  /\ Fault(TRUE)
  /\ net' = [net EXCEPT !.failed = "submit"]

\* uploadAndAnalyze throws (transport failure or a status outside 2xx)
submitFailed(t) ==
  /\ Mounted
  /\ tasks[t].pc = "submit"
  /\ tasks' = [tasks EXCEPT ![t] = IdleTask]
  /\ Commit([CatchUi(ui) EXCEPT !.toast = "analysis_failed"], wagmi,
            clearSavedState(storage), "none")
  /\ Fault(TRUE)
  /\ net' = [net EXCEPT !.failed = "submit"]

\* continueAnalysisMonitoring from the return of the poller to the first
\* await of uploadToIPFS.  u: the state after the poller's last onProgress.
Publish(t, u, payload) ==
  LET frontendResults == convertToFrontendFormat(payload)
      u1 == [u EXCEPT !.analysisResults = frontendResults,
                      !.analysisProgress = Pct(85)]
      st1 == saveState(storage, tasks[t].saved)
  IN IF ~env.jwt
     THEN /\ tasks' = [tasks EXCEPT ![t] = IdleTask]
          /\ net' = [net EXCEPT !.failed = "publish", !.saves = @ + 1,
                                !.saved = tasks[t].saved]
          /\ Commit(CatchUi(u1), wagmi, clearSavedState(st1), "results")
     ELSE /\ tasks' = [tasks EXCEPT ![t] =
                         [@ EXCEPT !.pc = "pin_file", !.results = frontendResults]]
          /\ net' = [net EXCEPT !.pins[JobOf(t)] = @ + 1, !.saves = @ + 1,
                                !.saved = tasks[t].saved,
                                !.pinned[JobOf(t)] = tasks[t].file]
          /\ Commit(u1, wagmi, st1, "results")

\* waitForAnalysisCompletion without its try: a fetch that raises ends the
\* poller and the error reaches the catch of continueAnalysisMonitoring
pollAnswerRaising(t, answer) ==
  /\ Mounted
  /\ tasks[t].pc = "fetch"
  /\ IF HasBody(answer)
     THEN /\ Publish(t, [ui EXCEPT !.analysisProgress = Pct(100)], answer.payload)
          /\ UNCHANGED env
     ELSE /\ env.pollFailures > 0
          /\ env' = [env EXCEPT !.pollFailures = @ - 1]
          /\ IF answer.kind = "error"
             THEN /\ tasks' = [tasks EXCEPT ![t] = IdleTask]
                  /\ Commit(CatchUi(ui), wagmi, clearSavedState(storage), "none")
                  /\ net' = net
             ELSE /\ tasks' = [tasks EXCEPT ![t] =
                                 [@ EXCEPT !.pc = "sleep", !.attempts = @ + 1]]
                  /\ UNCHANGED <<ui, wagmi, storage, page, net>>

\* waitForAnalysisCompletion without attempts++ after a fetch that failed
pollAnswerUncounted(t, answer) ==
  /\ Mounted
  /\ tasks[t].pc = "fetch"
  /\ IF HasBody(answer)
     THEN /\ Publish(t, [ui EXCEPT !.analysisProgress = Pct(100)], answer.payload)
          /\ UNCHANGED env
     ELSE /\ env.pollFailures > 0
          /\ env' = [env EXCEPT !.pollFailures = @ - 1]
          /\ tasks' = [tasks EXCEPT ![t] = [@ EXCEPT !.pc = "sleep"]]
          /\ UNCHANGED <<ui, wagmi, storage, page, net>>

\* waitForAnalysisCompletion: the answer to one getAnalysisResults call
pollAnswer(t, answer) ==
  /\ Mounted
  /\ tasks[t].pc = "fetch"
  /\ IF HasBody(answer)
     THEN \* if (results): onProgress('completed', 100); return results
          /\ Publish(t, [ui EXCEPT !.analysisProgress = Pct(100)], answer.payload)
          /\ UNCHANGED env
     ELSE /\ env.pollFailures > 0
          /\ env' = [env EXCEPT !.pollFailures = @ - 1]
          /\ IF answer.kind = "error" /\ tasks[t].attempts + 1 >= maxAttempts
             THEN Publish(t, ui, createFallbackResults(JobOf(t)))
             ELSE /\ tasks' = [tasks EXCEPT ![t] =
                                 [@ EXCEPT !.pc = "sleep", !.attempts = @ + 1,
                                           !.raised = @ \/ answer.kind = "error"]]
                  /\ UNCHANGED <<ui, wagmi, storage, page, net>>

\* waitForAnalysisCompletion: the 5 s timer ends and the loop goes round
pollTimer(t) ==
  /\ Mounted
  /\ tasks[t].pc = "sleep"
  /\ IF tasks[t].attempts >= maxAttempts
     THEN Publish(t, ui, createFallbackResults(JobOf(t)))
     ELSE /\ tasks' = [tasks EXCEPT ![t] = [@ EXCEPT !.pc = "fetch", !.fetches = @ + 1]]
          /\ Commit([ui EXCEPT !.analysisProgress = PollProgress(tasks[t].attempts)],
                    wagmi, storage, "none")
          /\ net' = net
  /\ UNCHANGED env

\* ------------------------------------------------------------ uploadToIPFS
\* the content identifier of the metadata document: it is derived from the
\* document, which names the file, embeds the original file's identifier
\* (its bytes) and the results
MetadataCid(file, results) ==
  [file |-> file.name, job |-> results.job, bytes |-> file.content]

\* originalFileHash: the content identifier of the original file
FileCid(file) == [file |-> file.name, job |-> 0, bytes |-> file.content]

\* an uploadToIPFS that goes on to the metadata document when the upload of
\* the original file was refused
pinFileAnswerLenient(t, ok) ==
  /\ Mounted
  /\ tasks[t].pc = "pin_file"
  /\ IF tasks[t].file # NoFile
     THEN /\ tasks' = [tasks EXCEPT ![t] = [@ EXCEPT !.pc = "pin_meta"]]
          /\ UNCHANGED <<ui, wagmi, storage, page, net>>
     ELSE /\ tasks' = [tasks EXCEPT ![t] = IdleTask]
          /\ Commit(CatchUi(ui), wagmi, clearSavedState(storage), "none")
          /\ net' = [net EXCEPT !.failed = "publish"]
  /\ Fault(~ok)

\* the answer to the upload of the original file; the metadata document is
\* built next (file.name of a null file throws) and uploaded
pinFileAnswer(t, ok) ==
  /\ Mounted
  /\ tasks[t].pc = "pin_file"
  /\ IF ok /\ tasks[t].file # NoFile
     THEN /\ tasks' = [tasks EXCEPT ![t] = [@ EXCEPT !.pc = "pin_meta"]]
          /\ UNCHANGED <<ui, wagmi, storage, page, net>>
     ELSE /\ tasks' = [tasks EXCEPT ![t] = IdleTask]
          /\ Commit(CatchUi(ui), wagmi, clearSavedState(storage), "none")
          /\ net' = [net EXCEPT !.failed = "publish"]
  /\ Fault(~ok)

\* a writeContract that hands nothing to the wallet
writeContractDropped(w) == [status |-> "idle", data |-> 0, receipt |-> "idle"]

\* writeContract of useWriteContract: a new mutation, pending in the wallet
writeContract(w) == [status |-> "pending", data |-> 0, receipt |-> "idle"]

\* the answer to the upload of the metadata document, and the rest of
\* continueAnalysisMonitoring: setIpfsHash, 95 %, saveState, writeContract
pinMetaAnswer(t, ok) ==
  /\ Mounted
  /\ tasks[t].pc = "pin_meta"
  /\ tasks' = [tasks EXCEPT ![t] = IdleTask]
  /\ IF ~ok
     THEN /\ Commit(CatchUi(ui), wagmi, clearSavedState(storage), "none")
          /\ net' = [net EXCEPT !.failed = "publish"]
     ELSE LET hash == MetadataCid(tasks[t].file, tasks[t].results)
              u1 == [ui EXCEPT !.ipfsHash = hash, !.analysisProgress = Pct(95)]
              st1 == saveState(storage, tasks[t].saved)
          IN IF ~tasks[t].isConnected
             THEN /\ Commit(CatchUi(u1), wagmi, clearSavedState(st1), "none")
                  /\ net' = [net EXCEPT !.saves = @ + 1, !.saved = tasks[t].saved]
             ELSE /\ Commit(u1, writeContract(wagmi), st1, "none")
                  /\ net' = [net EXCEPT !.writes[JobOf(t)] = @ + 1, !.saves = @ + 1,
                                        !.saved = tasks[t].saved,
                                        !.registered[JobOf(t)] =
                                           [cid |-> hash,
                                            isPublic |-> tasks[t].isPublic]]
  /\ Fault(~ok)

\* ------------------------------------------------------ wallet and ledger
walletApproves ==
  /\ Mounted
  /\ wagmi.status = "pending"
  /\ net' = [net EXCEPT !.txs = @ + 1]
  /\ Commit(ui, [status |-> "success", data |-> net.txs + 1, receipt |-> "pending"],
            storage, "none")
  /\ UNCHANGED <<tasks, env>>

\* the wallet declines or the call reverts: contractError
walletRejects ==
  /\ Mounted
  /\ wagmi.status = "pending"
  /\ Commit(ui, [wagmi EXCEPT !.status = "error"], storage, "none")
  /\ Fault(TRUE)
  /\ net' = [net EXCEPT !.failed = "ledger"]
  /\ UNCHANGED tasks

receiptArrives ==
  /\ Mounted
  /\ wagmi.receipt = "pending"
  /\ Commit(ui, [wagmi EXCEPT !.receipt = "success"], storage, "none")
  /\ UNCHANGED <<tasks, net, env>>

receiptFails ==
  /\ Mounted
  /\ wagmi.receipt = "pending"
  /\ Commit(ui, [wagmi EXCEPT !.receipt = "error"], storage, "none")
  /\ Fault(TRUE)
  /\ net' = [net EXCEPT !.failed = "ledger"]
  /\ UNCHANGED tasks

\* setTimeout of the confirmation effect: router.push('/results').  The
\* model follows the upload page until it is unmounted.
navigateToResults ==
  /\ page = "leaving"
  /\ page' = "results"
  /\ tasks' = [t \in Slots |-> IdleTask]
  /\ UNCHANGED <<ui, wagmi, storage, net, env>>

\* ------------------------------------- the buttons of the processing step
RecoveryShown ==
  /\ Mounted
  /\ ui.currentStep = "processing"
  /\ ui.isAnalyzing
  /\ ui.analysisProgress < Pct(95)

\* Retry Analysis Check: continueAnalysisMonitoring(String(currentAnalysisId))
retryAnalysisCheck ==
  /\ RecoveryShown
  /\ Truthy(ui.currentAnalysisId)
  /\ env.retries > 0
  /\ FreeSlots # {}
  /\ tasks' = [tasks EXCEPT ![NewSlot] =
                 MonitorTask("retry", StringOfId(ui.currentAnalysisId), ui, TRUE)]
  /\ env' = [env EXCEPT !.retries = @ - 1]
  /\ Commit([ui EXCEPT !.analysisProgress = PollProgress(0)], wagmi, storage, "none")
  /\ UNCHANGED net

\* Start Over
startOver ==
  /\ RecoveryShown
  /\ Commit([ui EXCEPT !.currentStep = "upload", !.isAnalyzing = FALSE,
                       !.analysisProgress = 0, !.currentAnalysisId = NullId],
            wagmi, clearSavedState(storage), "none")
  /\ net' = [net EXCEPT !.failed = "none"]
  /\ UNCHANGED <<tasks, env>>

\* ------------------------------------------------------------- recovery
\* the handoff record the restore code writes for a completed job
RestoredData(parsed, payload) ==
  [status |-> "restored", results |-> convertToFrontendFormat(payload),
   fileName |-> IF parsed.fileName = "" THEN "unknown.csv" ELSE parsed.fileName,
   analysisId |-> parsed.currentAnalysisId, isPublic |-> parsed.isPublic,
   ipfsHash |-> [file |-> "", job |-> 0, bytes |-> "restored"],
   transactionHash |-> 0 - 1]

\* the promise chain of the mount effect up to its first await:
\* getAnalysisStatus(String(parsedState.currentAnalysisId)), which calls
\* getAnalysisResults.  saved holds parsedState.
RestoreTask(parsed) ==
  [IdleTask EXCEPT !.pc = "status", !.origin = "resume",
                   !.analysisId = StringOfId(parsed.currentAnalysisId),
                   !.saved = parsed, !.isConnected = TRUE]

\* restore of a snapshot whose step is not 'processing'
RestoredUi(parsed) ==
  [InitUi EXCEPT !.currentStep = parsed.currentStep,
                 !.analysisProgress = parsed.analysisProgress,
                 !.currentAnalysisId = parsed.currentAnalysisId,
                 !.isAnalyzing = FALSE,
                 !.uploadedFile = IF parsed.fileName # "" /\ parsed.fileSize # 0
                                  THEN MockFile(parsed.fileName, parsed.fileType)
                                  ELSE NoFile]

\* a mount effect that does not look at the job id of a processing snapshot
\* and always asks the service for the status
MountEffectUnchecked(parsed) ==
  IF parsed = NoSnapshot
  THEN [ui |-> InitUi, storage |-> storage, task |-> IdleTask, page |-> "upload"]
  ELSE IF parsed = Unparsable
  THEN [ui |-> [InitUi EXCEPT !.toast = "restore_failed"],
        storage |-> clearSavedState(storage), task |-> IdleTask, page |-> "upload"]
  ELSE IF parsed.currentStep # "processing"
  THEN LET r == Render(InitUi, InitWagmi, RestoredUi(parsed), InitWagmi, storage, "file")
       IN [ui |-> r.ui, storage |-> r.storage, task |-> IdleTask, page |-> "upload"]
  ELSE IF storage.analysisResults # NoHandoff
  THEN [ui |-> InitUi, storage |-> clearSavedState(storage), task |-> IdleTask,
        page |-> "results"]
  ELSE [ui |-> InitUi, storage |-> storage, task |-> RestoreTask(parsed),
        page |-> "upload"]

\* the mount effect up to its first await, on the snapshot parsed: the state
\* it restores, what it leaves in sessionStorage, the promise chain it
\* starts and the page it ends on
MountEffect(parsed) ==
  IF parsed = NoSnapshot
  THEN [ui |-> InitUi, storage |-> storage, task |-> IdleTask, page |-> "upload"]
  ELSE IF parsed = Unparsable
  THEN \* JSON.parse throws: removeItem, toast
       [ui |-> [InitUi EXCEPT !.toast = "restore_failed"],
        storage |-> clearSavedState(storage), task |-> IdleTask, page |-> "upload"]
  ELSE IF parsed.currentStep # "processing"
  THEN LET r == Render(InitUi, InitWagmi, RestoredUi(parsed), InitWagmi, storage, "file")
       IN [ui |-> r.ui, storage |-> r.storage, task |-> IdleTask, page |-> "upload"]
  ELSE IF storage.analysisResults # NoHandoff
  THEN \* existing results: clearSavedState, router.push('/results')
       [ui |-> InitUi, storage |-> clearSavedState(storage), task |-> IdleTask,
        page |-> "results"]
  ELSE IF Truthy(parsed.currentAnalysisId)
  THEN [ui |-> InitUi, storage |-> storage, task |-> RestoreTask(parsed),
        page |-> "upload"]
  ELSE \* no analysis id: the snapshot is corrupt
       [ui |-> [InitUi EXCEPT !.toast = "corrupted"],
        storage |-> clearSavedState(storage), task |-> IdleTask, page |-> "upload"]

\* something other than the page replaces the uploadState item by text that
\* is not JSON
snapshotDamaged ==
  /\ storage.uploadState \notin {NoSnapshot, Unparsable}
  /\ storage' = [storage EXCEPT !.uploadState = Unparsable]
  /\ Fault(TRUE)
  /\ UNCHANGED <<ui, wagmi, tasks, page, net>>

\* The page is torn down (reload, or the tab is closed and opened again) and
\* mounted again: the in-memory state and the async functions are lost,
\* sessionStorage stays, and the mount effect restores from it.  connected
\* is isConnected of the renders that follow the mount: when it is false the
\* wallet effect leaves for the home page, and the upload page is unmounted.
reload(connected) ==
  /\ env.reloads > 0
  /\ env' = [env EXCEPT !.reloads = @ - 1]
  /\ wagmi' = InitWagmi
  /\ net' = [net EXCEPT !.failed = "none"]
  /\ LET m == MountEffect(storage.uploadState)
     IN /\ storage' = m.storage
        /\ IF connected
           THEN /\ ui' = m.ui
                /\ tasks' = [t \in Slots |-> IF t = 1 THEN m.task ELSE IdleTask]
                /\ page' = m.page
           ELSE /\ ui' = [InitUi EXCEPT !.toast = "connect_wallet"]
                /\ tasks' = [t \in Slots |-> IdleTask]
                /\ page' = "home"

\* a still-processing branch that submits the placeholder file again
\* instead of entering the poller
restoreResubmits(t) ==
  LET parsed == tasks[t].saved
      u1 == [ui EXCEPT !.currentStep = "processing",
                       !.currentAnalysisId = parsed.currentAnalysisId,
                       !.isAnalyzing = TRUE,
                       !.uploadedFile = MockFile(parsed.fileName, parsed.fileType)]
  IN /\ tasks' = [tasks EXCEPT ![t] =
                    [SubmitTask("resume", u1) EXCEPT !.analysisId = tasks[t].analysisId]]
     /\ net' = [net EXCEPT !.submits = @ + 1, !.submitBy = @ \cup {"resume"}]
     /\ Commit(u1, wagmi, storage, "file")

\* the still-processing branch of the restore: the UI state is restored and
\* continueAnalysisMonitoring of the first render is called with the
\* persisted id
restoreInProgress(t) ==
  LET parsed == tasks[t].saved
      u1 == [ui EXCEPT !.currentStep = "processing",
                       !.currentAnalysisId = parsed.currentAnalysisId,
                       !.isAnalyzing = TRUE,
                       !.uploadedFile = IF parsed.fileName # ""
                                        THEN MockFile(parsed.fileName, parsed.fileType)
                                        ELSE @,
                       !.analysisProgress = PollProgress(0)]
  IN /\ tasks' = [tasks EXCEPT ![t] =
                    MonitorTask("resume", StringOfId(parsed.currentAnalysisId),
                                InitUi, tasks[t].isConnected)]
     /\ net' = net
     /\ Commit(u1, wagmi, storage, "file")

\* a failed restore that shows the toast and leaves the snapshot where it is
restoreFailedKeeps(t, message) ==
  /\ tasks' = [tasks EXCEPT ![t] = IdleTask]
  /\ net' = net
  /\ Commit([ui EXCEPT !.currentStep = "upload", !.toast = message], wagmi,
            storage, "none")

\* the restore failed: toast, clearSavedState, setCurrentStep('upload')
restoreFailed(t, message) ==
  /\ tasks' = [tasks EXCEPT ![t] = IdleTask]
  /\ net' = net
  /\ Commit([ui EXCEPT !.currentStep = "upload", !.toast = message], wagmi,
            clearSavedState(storage), "none")

\* getAnalysisStatus answers: 'completed' when the payload has results,
\* 'processing' when it has none, 'failed' when the call threw
statusAnswer(t, answer) ==
  /\ Mounted
  /\ tasks[t].pc = "status"
  /\ IF answer.kind = "ready"
     THEN /\ tasks' = [tasks EXCEPT ![t] = [@ EXCEPT !.pc = "full"]]
          /\ UNCHANGED <<ui, wagmi, storage, page, net>>
     ELSE IF HasBody(answer)
     THEN \* no results: 'processing', whatever response.status says
          restoreInProgress(t)
     ELSE restoreFailed(t, "previous_failed")
  /\ Fault(answer.kind \in {"null", "error"})

\* a completed branch that clears the snapshot and navigates without
\* writing the handoff record
fullAnswerUnrecorded(t, answer) ==
  /\ Mounted
  /\ tasks[t].pc = "full"
  /\ IF HasBody(answer)
     THEN /\ storage' = clearSavedState(storage)
          /\ page' = "results"
          /\ tasks' = [s \in Slots |-> IdleTask]
          /\ UNCHANGED <<ui, wagmi, net>>
     ELSE restoreFailed(t, "restore_failed")
  /\ Fault(answer.kind \in {"null", "error"})

\* the completed branch: getAnalysisResults answers
fullAnswer(t, answer) ==
  /\ Mounted
  /\ tasks[t].pc = "full"
  /\ IF HasBody(answer)
     THEN /\ storage' = clearSavedState(
                 [storage EXCEPT !.analysisResults =
                                   RestoredData(tasks[t].saved, answer.payload)])
          /\ page' = "results"
          /\ tasks' = [s \in Slots |-> IdleTask]
          /\ UNCHANGED <<ui, wagmi, net>>
     ELSE restoreFailed(t, "restore_failed")
  /\ Fault(answer.kind \in {"null", "error"})

\* ------------------------------------------------------- specifications
\* env: what the user and the adapters may still do in this behaviour
\* (submits, retries, reloads: clicks and page loads left; pollFailures:
\* result fetches that may still fail or come back empty; faults: other
\* adapter calls that may still fail) and whether the Pinata credential is
\* configured (jwt)
InitEnv(submits, retries, reloads, pollFailures, faults) ==
  [submits |-> submits, retries |-> retries, reloads |-> reloads,
   pollFailures |-> pollFailures, faults |-> faults, jwt |-> TRUE]

InitPage(e) ==
  /\ ui = InitUi
  /\ wagmi = InitWagmi
  /\ storage = InitStorage
  /\ tasks = [t \in Slots |-> IdleTask]
  /\ page = "upload"
  /\ net = InitNet
  /\ env = e

\* the steps of one submission from the click to the confirmation
Pipeline ==
  \/ startAnalysis
  \/ \E t \in Slots, numeric \in IdForms : submitAccepted(t, numeric)
  \/ \E t \in Slots : \E answer \in Answers(JobOf(t)) : pollAnswer(t, answer)
  \/ \E t \in Slots : pollTimer(t)
  \/ \E t \in Slots, ok \in BOOLEAN : pinFileAnswer(t, ok)
  \/ \E t \in Slots, ok \in BOOLEAN : pinMetaAnswer(t, ok)
  \/ walletApproves
  \/ receiptArrives
  \/ navigateToResults

\* the adapter calls that can only fail
Failures ==
  \/ \E t \in Slots : submitFailed(t)
  \/ walletRejects
  \/ receiptFails

\* the mount effect and its promise chain
Recovery ==
  \/ \E connected \in BOOLEAN : reload(connected)
  \/ \E t \in Slots : \E answer \in Answers(JobOf(t)) : statusAnswer(t, answer)
  \/ \E t \in Slots : \E answer \in Answers(JobOf(t)) : fullAnswer(t, answer)

\* One submission of a file that passes the validation, with everything that
\* can happen to it: adapter failures, the buttons of the processing step,
\* reloads and recovery.
Init == InitPage(InitEnv(1, MaxRetries, MaxReloads, MaxPollFailures, MaxFaults))

Next ==
  \/ handleFileUpload(CsvAtLimit)
  \/ navigateToStep
  \/ setIsPublic
  \/ Pipeline
  \/ Failures
  \/ retryAnalysisCheck
  \/ startOver
  \/ Recovery

Spec == Init /\ [][Next]_vars

\* One submission, torn down and recovered; no second poller is started by
\* hand.
RecoveryInit == InitPage(InitEnv(1, 0, MaxReloads, MaxPollFailures, MaxFaults))

RecoveryNext ==
  \/ handleFileUpload(CsvAtLimit)
  \/ navigateToStep
  \/ setIsPublic
  \/ Pipeline
  \/ Failures
  \/ startOver
  \/ snapshotDamaged
  \/ Recovery

RecoverySpec == RecoveryInit /\ [][RecoveryNext]_vars

\* A submission and the submissions that follow it within one page load
\* (after a failure or after Start Over), while the async functions of the
\* earlier ones are still running.
ResubmitInit == InitPage(InitEnv(1 + MaxResubmits, 0, 0, MaxPollFailures, MaxFaults))

ResubmitNext ==
  \/ handleFileUpload(CsvAtLimit)
  \/ navigateToStep
  \/ Pipeline
  \/ Failures
  \/ startOver

ResubmitSpec == ResubmitInit /\ [][ResubmitNext]_vars

\* The choice of the file, over all kinds of files, around one submission.
ValidationInit == InitPage(InitEnv(1, 0, 0, MaxPollFailures, MaxFaults))

ValidationNext ==
  \/ \E file \in Files : handleFileUpload(file)
  \/ navigateToStep
  \/ setIsPublic
  \/ Pipeline
  \/ Failures
  \/ startOver

ValidationSpec == ValidationInit /\ [][ValidationNext]_vars

\* One submission against an analysis service that may fail every fetch of
\* the poller's budget.
PollerInit == InitPage(InitEnv(1, 0, 0, maxAttempts, MaxFaults))

PollerNext ==
  \/ \E file \in {CsvAtLimit, JsonOk} : handleFileUpload(file)
  \/ setIsPublic
  \/ Pipeline
  \/ Failures

PollerSpec == PollerInit /\ [][PollerNext]_vars

\* The same submission when the content store, the wallet and the ledger
\* answer every call with success, and every call is answered: a pending
\* fetch, timer, upload, wallet request or receipt does not wait for ever.
FallbackInit == InitPage(InitEnv(1, 0, 0, maxAttempts, 0))

FallbackNext ==
  \/ \E file \in {CsvAtLimit, JsonOk} : handleFileUpload(file)
  \/ setIsPublic
  \/ Pipeline

FallbackSpec == FallbackInit /\ [][FallbackNext]_vars /\ WF_vars(Pipeline)

\* One submission with or without the Pinata credential in the build.
PublishInit ==
  \E jwt \in BOOLEAN :
    InitPage([InitEnv(1, 0, 0, MaxPollFailures, MaxFaults) EXCEPT !.jwt = jwt])

PublishNext ==
  \/ \E file \in {CsvAtLimit, JsonOk} : handleFileUpload(file)
  \/ navigateToStep
  \/ setIsPublic
  \/ Pipeline
  \/ Failures

PublishSpec == PublishInit /\ [][PublishNext]_vars

\* A submission that is confirmed, the way back from the results page to the
\* upload page (a new mount of the page within the same session; the results
\* page does not touch sessionStorage), and a second submission torn down
\* while in flight.  The content store, the wallet and the ledger answer
\* every call with success.
ReturnInit == InitPage(InitEnv(1 + MaxResubmits, 0, MaxReloads + 2, MaxPollFailures, 0))

ReturnNext ==
  \/ handleFileUpload(CsvAtLimit)
  \/ Pipeline
  \/ Recovery

ReturnSpec == ReturnInit /\ [][ReturnNext]_vars

\* ------------------------------------------------------------ properties
PollingPcs == {"fetch", "sleep"}
ResumePcs == {"status", "full", "fetch", "sleep", "pin_file", "pin_meta"}

\* C1. Resume never re-submits: no step of the recovery calls uploadAndAnalyze
\* (no submit is ever made by an async function of the mount effect); the
\* promise chain of the mount effect starts with the job id of the snapshot,
\* keeps that id in every later step, and only queries status and results,
\* polls, or goes on to publish.
C1_ResumeNeverResubmits ==
  [][ /\ "resume" \notin net'.submitBy
      /\ \A t \in Slots :
           tasks'[t].origin = "resume" =>
             /\ tasks'[t].pc \in ResumePcs
             /\ tasks'[t].analysisId.numeric
             /\ IF tasks[t].origin = "resume"
                THEN /\ tasks'[t].analysisId = tasks[t].analysisId
                     /\ net'.submits = net.submits
                ELSE /\ Truthy(storage.uploadState.currentAnalysisId)
                     /\ tasks'[t].analysisId = StringOfId(storage.uploadState.currentAnalysisId)
                     /\ tasks'[t].pc = "status"
                     /\ net'.submits = net.submits ]_vars

\* the recovery found the job still processing and entered the poller with
\* the persisted id
C1_ResumedPolling ==
  \E t \in Slots :
    /\ tasks[t].origin = "resume"
    /\ tasks[t].pc = "fetch"
    /\ tasks[t].analysisId = StringOfId(ui.currentAnalysisId)
    /\ net.submits = 1
    /\ net.submitBy = {"user"}

\* C2. Idempotent resume: once the page was torn down and the recovery has
\* handed over to the results page, the submission is ledger-confirmed: the
\* handoff record is the one the confirmation effect writes, and it carries
\* the hash of a ledger transaction that was sent.
C2_ResumeEndsConfirmed ==
  (page = "results" /\ env.reloads < MaxReloads) =>
    /\ storage.analysisResults.status = "confirmed"
    /\ storage.analysisResults.transactionHash \in 1..net.txs

\* the steps that reset the progress explicitly
ExplicitReset ==
  \/ startAnalysis
  \/ startOver
  \/ navigateToStep
  \/ \E connected \in BOOLEAN : reload(connected)

\* C3. Monotonic progress: but for an explicit reset, no step lowers
\* analysisProgress.
C3_MonotonicProgress ==
  [][ExplicitReset \/ ui'.analysisProgress >= ui.analysisProgress]_vars

\* C4. No skip-ahead: ipfsHash is set only while analysisResults is set, and
\* a transaction handle exists only while ipfsHash is set.
C4_NoSkipAhead ==
  /\ ui.ipfsHash # NoCid => ui.analysisResults # NoResults
  /\ wagmi.data # 0 => ui.ipfsHash # NoCid

\* the user gives the chosen file up (the X button of the preview step)
Abandon == navigateToStep

\* C5. After a failed publish, as long as the user does not give the file
\* up, the analysis result that was obtained stays held and no step (the
\* retry, Start AI Analysis, included) submits to the analysis service again.
C5_RetryReusesResult ==
  [][ (net.failed = "publish" /\ ui.analysisResults # NoResults /\ ~Abandon) =>
         /\ ui'.analysisResults = ui.analysisResults
         /\ net'.submits = net.submits ]_vars

\* C6. After a failed ledger registration, as long as the user does not give
\* the file up, the metadata CID that was obtained stays held and no step
\* (the retry included) uploads to the content store again.
C6_RetryReusesCid ==
  [][ (net.failed = "ledger" /\ ui.ipfsHash # NoCid /\ ~Abandon) =>
         /\ ui'.ipfsHash = ui.ipfsHash
         /\ net'.pins = net.pins ]_vars

\* C7. Bounded polling: a poller never makes more than maxAttempts fetches;
\* every step of a poller either keeps it polling or returns a result to
\* continueAnalysisMonitoring, which stores it and goes on to publish (the
\* poller never throws; it returns whatever payload a fetch gave); the result is the fallback only when all
\* maxAttempts fetches were made and none gave a payload.
C7_BoundedPolling ==
  [][ \A t \in Slots :
        /\ tasks'[t].fetches <= maxAttempts
        /\ tasks'[t].attempts <= maxAttempts
        /\ (tasks[t].pc \in PollingPcs /\ tasks'[t] # tasks[t]) =>
             \/ tasks'[t].pc \in PollingPcs
             \/ /\ tasks'[t].pc = "pin_file"
                /\ tasks'[t].results # NoResults
                /\ ui'.analysisResults = tasks'[t].results
                /\ tasks'[t].results.source = "fallback" =>
                     /\ tasks[t].fetches = maxAttempts
                     /\ env'.pollFailures <= env.pollFailures
                     /\ tasks'[t].results = convertToFrontendFormat(createFallbackResults(JobOf(t))) ]_vars

\* the twelfth fetch failed and the poller returned the fallback
C7_FallbackReturned ==
  \E t \in Slots :
    /\ tasks[t].pc = "pin_file"
    /\ tasks[t].fetches = maxAttempts
    /\ tasks[t].results.source = "fallback"
    /\ env.pollFailures = 0

FallbackHeld == ui.analysisResults.source = "fallback"

ConfirmedWithFallback ==
  /\ isTransactionConfirmed(wagmi)
  /\ ui.analysisProgress = Pct(100)
  /\ storage.analysisResults.status = "confirmed"
  /\ storage.analysisResults.results.source = "fallback"
  /\ storage.analysisResults.transactionHash = wagmi.data
  /\ net.pins[ui.analysisResults.job] = 1
  /\ net.writes[ui.analysisResults.job] = 1

\* C8. Fallback scenario: the result the poller returns after maxAttempts
\* failed fetches has quality score 85, and from there the pipeline goes on
\* to publish, to register and to the confirmation with progress 100.
C8_FallbackReachesConfirmed ==
  /\ [](FallbackHeld => ui.analysisResults.overall = 85)
  /\ FallbackHeld ~> ConfirmedWithFallback

C8_FallbackConfirmed == FallbackHeld /\ ConfirmedWithFallback /\ page = "results"

\* the validation as the claim words it
TooLarge(file) == file.size > 100 * 1024 * 1024
AllowedType(file) ==
  file.type \in {"text/csv", "application/json",
                 "application/vnd.openxmlformats-officedocument.spreadsheetml.sheet"}
AtLimit(file) == file.size = 100 * 1024 * 1024
WellFormed(file) ==
  file.type = "application/json" => file.content \in {"array", "object"}

FileRejected ==
  /\ ui'.currentStep = "upload"
  /\ ui'.uploadedFile = ui.uploadedFile
  /\ ui'.error # ""
  /\ storage' = storage
  /\ tasks' = tasks
  /\ net' = net

FileAccepted(file) ==
  /\ ui'.uploadedFile = file
  /\ ui'.currentStep = "preview"
  /\ ui'.error = ""

C10_NoDuplicatedWork ==
  /\ net.submits <= 1
  /\ \A j \in Jobs : net.pins[j] <= 1 /\ net.writes[j] <= 1

\* C11. Snapshot cleared on terminal success: once the confirmation effect
\* has written the handoff record of the submission, sessionStorage holds no
\* uploadState snapshot.
C11_SnapshotClearedOnSuccess ==
  storage.analysisResults.status = "confirmed" => storage.uploadState = NoSnapshot

\* the user has reset the only submission made so far (Start Over) while one
\* of its asynchronous functions still waits for a response
ResetInFlight ==
  /\ Mounted
  /\ net.submits = 1
  /\ ~ui.isAnalyzing
  /\ \E t \in Slots : tasks[t].pc # "free"

\* C12. Reset discards stale responses: a response of the reset submission
\* that arrives later changes no component state, starts no wallet request,
\* writes nothing to sessionStorage and starts no upload to the content store
\* and no ledger registration.
C12_ResetDiscardsStaleResponses ==
  [][(ResetInFlight /\ tasks' # tasks)
       => /\ ui' = ui
          /\ wagmi' = wagmi
          /\ storage' = storage
          /\ net'.pins = net.pins
          /\ net'.writes = net.writes]_vars

\* C13. Resume of a completed job proceeds to Publishing: when the recovery
\* has presented a submission as done (it wrote the handoff record for the
\* results page), the content-store upload and the ledger registration of
\* that job have been made.
C13_ResumePublishesCompletedJob ==
  storage.analysisResults.status = "restored" =>
    LET job == storage.analysisResults.results.job
    IN /\ job \in Jobs
       /\ net.pins[job] > 0
       /\ net.writes[job] > 0

\* a submission is in flight and the processing screen shows it
InFlight == Mounted /\ ui.currentStep = "processing" /\ ui.isAnalyzing

\* C14. Observer-visible state is always persisted: after every step of a
\* submission in flight the snapshot in sessionStorage holds the step, job id
\* and progress the page shows, and every saveState() call an asynchronous
\* function makes during the submission stores those values, not older ones.
C14_SnapshotHoldsVisibleState ==
  [][/\ InFlight' => storage'.uploadState = SavedOf(ui')
     /\ (InFlight /\ InFlight' /\ net'.saves # net.saves)
          => net'.saved = SavedOf(ui')]_vars

\* C15. The poller returns a real result only for a ready job: whenever an
\* attempt of waitForAnalysisCompletion hands a payload of the service to its
\* caller (who stores it as the analysis results), that payload carries
\* results; on an answer without results the poller keeps polling.
C15_PollerReturnsOnlyReadyResult ==
  [][\A t \in Slots :
       (tasks[t].pc = "fetch" /\ tasks'[t] # tasks[t]
          /\ ui'.analysisResults # ui.analysisResults)
         => ui'.analysisResults.ready]_vars

\* C16. Transient poll errors are absorbed: a fetch that raises on an attempt
\* before the twelfth takes one attempt, leaves the page, the wallet and
\* sessionStorage as they are and the poller waits for its next attempt; a
\* fetch that returns a result, after failed ones or not, makes the poller
\* return that result of the service.
C16_PollErrorsAbsorbed ==
  [][\A t \in Slots : \A answer \in Answers(JobOf(t)) :
       pollAnswer(t, answer) =>
         /\ (answer.kind = "error" /\ tasks[t].attempts + 1 < maxAttempts) =>
              /\ tasks'[t].pc = "sleep"
              /\ tasks'[t].attempts = tasks[t].attempts + 1
              /\ tasks'[t].fetches = tasks[t].fetches
              /\ tasks[t].fetches = tasks[t].attempts + 1
              /\ UNCHANGED <<ui, wagmi, storage, page, net>>
         /\ answer.kind = "ready" =>
              /\ ui'.analysisResults = convertToFrontendFormat(answer.payload)
              /\ ui'.analysisResults.source = "service"]_vars

\* a poller whose fetch raised has later returned the result of the service
C16_ResultAfterFailedFetch ==
  \E t \in Slots :
    /\ tasks[t].pc = "pin_file"
    /\ tasks[t].raised
    /\ tasks[t].attempts >= 1
    /\ tasks[t].results.ready
    /\ tasks[t].results.source = "service"
    /\ ui.analysisResults = tasks[t].results

\* the asynchronous functions inside waitForAnalysisCompletion, and those
\* inside uploadToIPFS
Pollers == {t \in Slots : tasks[t].pc \in {"fetch", "sleep"}}
Publishers == {t \in Slots : tasks[t].pc \in {"pin_file", "pin_meta"}}
\* a ledger registration waits for the wallet or for its receipt
Registering == wagmi.status = "pending" \/ wagmi.receipt = "pending"

\* C17. One operation at a time: at most one poller loop is active, and of
\* polling, content-store upload and ledger registration at most one is
\* running.
C17_OneOperationAtATime ==
  /\ Cardinality(Pollers) <= 1
  /\ Cardinality(Pollers) + Cardinality(Publishers)
       + (IF Registering THEN 1 ELSE 0) <= 1

\* C18. The job id is stable: while a submission whose submit call returned
\* the id of job j is in flight, the page holds j as currentAnalysisId, the
\* snapshot in sessionStorage carries j, and every saveState() call of its
\* asynchronous function writes a snapshot that carries j.
C18_JobIdStable ==
  [][\A t \in Slots :
       (tasks[t].origin = "user" /\ tasks[t].pc \in {"fetch", "sleep", "pin_file", "pin_meta"}
          /\ InFlight)
         => /\ ui.currentAnalysisId = JobOf(t)
            /\ storage.uploadState.currentAnalysisId = JobOf(t)
            /\ (InFlight' /\ net'.saves # net.saves)
                 => net'.saved.currentAnalysisId = JobOf(t)]_vars

\* a snapshot of the processing step without a job id, and no handoff record
CorruptSnapshot ==
  /\ storage.uploadState.currentStep = "processing"
  /\ ~Truthy(storage.uploadState.currentAnalysisId)
  /\ storage.analysisResults = NoHandoff

\* C19. Corrupt snapshot handling: when the page is mounted (wallet
\* connected) on a processing snapshot without job id and there is no handoff
\* record, the mount effect removes the snapshot and the page shows the upload
\* step; no asynchronous function is started and no call to the analysis
\* service, the content store or the ledger is made.
C19_CorruptSnapshotCleared ==
  [][(CorruptSnapshot /\ reload(TRUE))
       => /\ storage'.uploadState = NoSnapshot
          /\ storage'.analysisResults = NoHandoff
          /\ page' = "upload"
          /\ ui' = [InitUi EXCEPT !.toast = "corrupted"]
          /\ \A t \in Slots : tasks'[t] = IdleTask
          /\ net'.submits = net.submits
          /\ net'.pins = net.pins
          /\ net'.writes = net.writes
          /\ net'.txs = net.txs]_vars

\* the page after the mount effect met a corrupt snapshot
C19_CorruptSnapshotMet ==
  /\ page = "upload"
  /\ ui.toast = "corrupted"
  /\ ui.currentStep = "upload"
  /\ storage.uploadState = NoSnapshot
  /\ net.submits = 1
  /\ env.reloads < MaxReloads

\* the recovery has given up: no snapshot, the upload step, an error toast of
\* the mount effect, and none of its asynchronous functions left
RecoveryGaveUp ==
  /\ storage.uploadState = NoSnapshot
  /\ page = "upload"
  /\ ui.currentStep = "upload"
  /\ ui.toast \in {"previous_failed", "restore_failed"}
  /\ \A t \in Slots : tasks[t].origin # "resume"

\* C20. Recovery never raises: when the status query or the fetch of the full
\* result fails during the recovery, or the snapshot is not parsable, the
\* step ends with the snapshot removed, the page at the upload step and an
\* error toast shown; the failure is handled inside the mount effect.
C20_RecoveryNeverRaises ==
  [][/\ \A t \in Slots : \A answer \in Answers(JobOf(t)) :
          (answer.kind \in {"null", "error"}
             /\ (statusAnswer(t, answer) \/ fullAnswer(t, answer)))
            => RecoveryGaveUp'
     /\ (storage.uploadState = Unparsable /\ reload(TRUE)) => RecoveryGaveUp']_vars

\* the page after the status query of the recovery failed
C20_StatusQueryFailed ==
  /\ RecoveryGaveUp
  /\ ui.toast = "previous_failed"
  /\ net.submits = 1
  /\ env.reloads < MaxReloads
  /\ env.faults < MaxFaults

\* the recovery has reported the previous analysis as failed and removed the
\* snapshot
ReportedFailed(t) ==
  /\ tasks[t] = IdleTask
  /\ ui.toast = "previous_failed"
  /\ ui.currentStep = "upload"
  /\ storage.uploadState = NoSnapshot

\* C21. Recovery branches on the status the service reports: on the answer to
\* the status query of the recovery, the failure branch (toast, snapshot
\* removed) is taken exactly when the service reports the job failed, the
\* poller is resumed when it reports the job still processing or pending, and
\* the completed branch (fetch of the full result) is taken only when it
\* reports the job completed.
C21_RecoveryBranchesOnStatus ==
  [][\A t \in Slots : \A answer \in Answers(JobOf(t)) :
       statusAnswer(t, answer) =>
         /\ ReportedFailed(t)' <=> answer.kind = "failed"
         /\ answer.kind = "processing" => tasks'[t].pc = "fetch"
         /\ tasks'[t].pc = "full" => answer.kind = "ready"]_vars

\* C22. The handoff record is written only on Confirmed: a step that writes
\* the analysisResults record finds none written before, the receipt of the
\* registration transaction has arrived, and the record carries the hash of
\* that transaction and the metadata CID the publish returned.
C22_HandoffOnlyOnConfirmed ==
  [][storage'.analysisResults # storage.analysisResults =>
       /\ storage.analysisResults = NoHandoff
       /\ isTransactionConfirmed(wagmi')
       /\ wagmi'.data \in 1..net'.txs
       /\ storage'.analysisResults.transactionHash = wagmi'.data
       /\ ui'.ipfsHash # NoCid
       /\ storage'.analysisResults.ipfsHash = ui'.ipfsHash]_vars

\* the publish of t has raised: its caller's catch ran, no CID was set and
\* nothing was handed to the wallet
PublishRaised(t) ==
  /\ tasks'[t] = IdleTask
  /\ ui'.currentStep = "preview"
  /\ ui'.toast = "monitoring_failed"
  /\ ui'.ipfsHash = NoCid
  /\ wagmi' = wagmi
  /\ wagmi.status = "idle"
  /\ net'.writes = net.writes

\* C23. Publish is all-or-nothing and ordered: the metadata document is
\* uploaded only after the upload of the original file succeeded; when either
\* upload fails, or the credential is missing (then no upload is made at
\* all), the publish raises, ipfsHash stays unset and no ledger registration
\* is attempted; the CID set on success is the one of the metadata document,
\* never the one of the original file.
C23_PublishAllOrNothing ==
  [][\A t \in Slots :
       /\ (pinFileAnswer(t, FALSE) \/ pinMetaAnswer(t, FALSE)) => PublishRaised(t)
       /\ (~env.jwt /\ tasks[t].pc \in PollingPcs /\ tasks'[t].pc \notin PollingPcs)
            => PublishRaised(t) /\ net'.pins = net.pins
       /\ (tasks'[t].pc = "pin_meta" /\ tasks[t].pc # "pin_meta")
            => pinFileAnswer(t, TRUE)
       /\ (ui'.ipfsHash # ui.ipfsHash /\ tasks[t].pc = "pin_meta")
            => /\ pinMetaAnswer(t, TRUE)
               /\ ui'.ipfsHash = MetadataCid(tasks[t].file, tasks[t].results)
               /\ ui'.ipfsHash # FileCid(tasks[t].file)]_vars

\* an upload of the publish was refused: the results are held, no CID is set
\* and nothing was handed to the wallet
C23_UploadRefused ==
  /\ net.failed = "publish"
  /\ net.pins[1] = 1
  /\ ui.analysisResults # NoResults
  /\ ui.ipfsHash = NoCid
  /\ ui.toast = "monitoring_failed"
  /\ wagmi = InitWagmi
  /\ net.writes[1] = 0
  /\ env.faults < MaxFaults

\* C24. The snapshot is destroyed only on terminal success or explicit reset:
\* a step that removes the uploadState snapshot is the Start Over of the
\* user, or the receipt of the transaction has arrived and the handoff record
\* of the confirmation is written.
C24_SnapshotRemovedOnlyOnSuccessOrReset ==
  [][(storage.uploadState # NoSnapshot /\ storage'.uploadState = NoSnapshot)
       => \/ startOver
          \/ /\ isTransactionConfirmed(wagmi')
             /\ storage'.analysisResults.status = "confirmed"]_vars

\* the only submit made has failed and the user has not acted since
SubmitHasFailed == net.failed = "submit" /\ net.submits = 1

\* C25. Submit failure is fatal for the attempt: the step in which the submit
\* call fails ends the asynchronous function, shows the error, leaves the
\* processing step and removes the snapshot; and as long as the user does not
\* act, no job id is held, no poller or other asynchronous function runs, no
\* content-store or ledger call has been made and no snapshot exists.
C25_SubmitFailureIsFatal ==
  [][/\ \A t \in Slots :
          submitFailed(t) =>
            /\ tasks'[t] = IdleTask
            /\ ui'.toast = "analysis_failed"
            /\ ui'.currentStep = "preview"
            /\ ~ui'.isAnalyzing
            /\ storage'.uploadState = NoSnapshot
     /\ SubmitHasFailed' =>
          /\ ui'.currentAnalysisId = NullId
          /\ \A t \in Slots : tasks'[t].pc = "free"
          /\ \A j \in Jobs : net'.pins[j] = 0 /\ net'.writes[j] = 0
          /\ net'.txs = 0
          /\ wagmi' = InitWagmi
          /\ storage'.uploadState = NoSnapshot
          /\ storage'.analysisResults = NoHandoff]_vars

\* the page after the submit call failed
C25_SubmitFailed ==
  /\ SubmitHasFailed
  /\ ui.toast = "analysis_failed"
  /\ ui.currentStep = "preview"
  /\ ui.uploadedFile # NoFile
  /\ storage.uploadState = NoSnapshot
  /\ env.faults < MaxFaults

\* C26. A handoff record left by an earlier submission never makes recovery
\* abandon a different in-flight submission: when the mount effect finds a
\* processing snapshot and a handoff record and removes the snapshot, the
\* record carries the job id of the snapshot.
C26_HandoffOfSameSubmission ==
  [][\A connected \in BOOLEAN :
       (/\ reload(connected)
        /\ storage.uploadState.currentStep = "processing"
        /\ storage.analysisResults # NoHandoff
        /\ storage'.uploadState = NoSnapshot)
         => storage.analysisResults.analysisId = storage.uploadState.currentAnalysisId]_vars

\* C27. The handoff record is internally consistent: the results, the
\* ipfsHash, the analysisId and the file name written into one handoff record
\* by the confirmation effect all come from the same submission (the results
\* and the metadata document are those of the job the record names, and the
\* metadata document is that of the file the record names), also when the
\* user resets with Start Over and starts a second submission while the
\* responses of the first are still in flight.  A record without an
\* analysisId (null) names no submission.
C27_HandoffFromOneSubmission ==
  storage.analysisResults.status = "confirmed" =>
    LET record == storage.analysisResults
    IN /\ record.analysisId \in {NullId, record.results.job}
       /\ record.ipfsHash.job = record.results.job
       /\ record.ipfsHash.file = record.fileName

\* C28. Handoff precedes snapshot removal: on every path that ends a
\* submission with results (the confirmation on the ledger, after which the
\* page leaves for the results, and the recovery of a completed job) the
\* handoff record is written before the snapshot is cleared, so in no
\* reachable state has a finished submission neither a snapshot nor a handoff
\* record: whenever the page is leaving or has left for the results, the
\* handoff record is there.
Finished == page \in {"leaving", "results"}

C28_HandoffBeforeSnapshotRemoval ==
  Finished => storage.analysisResults # NoHandoff

\* the recovery of a completed job has written the record, removed the
\* snapshot and left for the results
C28_RecoveredAndHandedOff ==
  /\ page = "results"
  /\ storage.uploadState = NoSnapshot
  /\ storage.analysisResults.status = "restored"
  /\ net.submits > 0

\* C29. Visibility is preserved end to end: the isPublic flag passed to the
\* ledger registration call (writeContract) of a submission equals the
\* visibility the user chose when submitting it (the isPublic passed to
\* uploadAndAnalyze and stored in the snapshot), also when the registration
\* happens after a page reload and resume.
C29_VisibilityPreserved ==
  \A j \in Jobs :
    net.writes[j] > 0 => net.registered[j].isPublic = net.submitted[j].isPublic

\* C30. The published original file is the submitted file: every upload of
\* the 'original file' to the content store carries the file the user
\* submitted for that submission (its name, size, type and bytes); a resumed
\* pipeline never sends a placeholder (an empty or null file) as the
\* original dataset.
C30_OriginalFilePublished ==
  \A j \in Jobs :
    net.pins[j] > 0 => net.pinned[j] = net.submitted[j].file

====
